---- MODULE Spec2Model ----
(***************************************************************************)
(* Model of the HydePark synchronization engine: the event processor's     *)
(* per-worker lifecycle handlers (src/processors/event_processor.py), the  *)
(* JSON reconciliation store (src/database.py), the duplicate-face         *)
(* admission gate (src/processors/image_processor.py) and the outbound     *)
(* calls to the access-control system (src/api/hikcentral_api.py) and to   *)
(* the upstream event source (src/api/supabase_api.py).                    *)
(*                                                                         *)
(* One action models one whole handler invocation.  The answers of the     *)
(* outside world (image download, remote responses) are drawn with \E at   *)
(* the point where the handler asks for them.                              *)
(***************************************************************************)
EXTENDS Integers, Sequences, FiniteSets, TLC

VARIABLES
    db,     \* the workers.json store: a sequence of worker records
    disk,   \* the faces directory: national id -> <<>> (no file) or <<content>>
    last,   \* what the most recent handler invocation was given and did
    events,     \* process_events: the list the current poll returned
    next,       \* process_events: index of the event the loop is at, 0 = not running
    dispatched, \* indices handed to process_single_event in this poll, in order
    persisted,  \* national ids a creation of this poll has written to the store
    file,   \* workers.json as threads see it: its records, and whether a write
            \* has truncated it without having written the new text yet
    lock,   \* Database.lock of each Database object: "free" or the holding thread
    pc,     \* where each thread stands in its store call
    local,  \* `data` of each thread inside insert()
    seen,   \* what the dashboard's last get_all_workers() returned
    call,   \* a function called on its own: the arguments it is given
    outcome  \* <<>> before that call returns, then <<what it returned>>

batchVars == <<events, next, dispatched, persisted>>

storeVars == <<file, lock, pc, local, seen>>

callVars == <<call, outcome>>

vars == <<db, disk, last, events, next, dispatched, persisted,
          file, lock, pc, local, seen, call, outcome>>

(***************************************************************************)
(* Values                                                                  *)
(***************************************************************************)

\* Number of distinct face identities an image can show (faces 1..NumFaces).
NumFaces == 3

\* Config.FACE_SIMILARITY_THRESHOLD = 0.4, in tenths.
FACE_SIMILARITY_THRESHOLD == 4

\* Content of an image file in which the encoder detects no face.
NoFace == 0

\* Python's None, and a dict key that is not present at all.
None    == "None"
Missing == "<missing>"

\* National id numbers the upstream source can send, and the worker id
\* (payload 'id') that goes with each.
Keys == {"k1", "k2"}
WorkerIds == [k \in Keys |-> IF k = "k1" THEN "w1" ELSE "w2"]

\* The personId the access-control system assigns to a person code.
RemotePersonId == [c \in {"w1", "w2"} |-> IF c = "w1" THEN "p1" ELSE "p2"]

ImageContents == {NoFace} \cup (1 .. NumFaces)

\* Truthiness taken as `is not None`.
TruthyNotNone(x) == x # None

\* Python truthiness of the values the handlers test with `not x`.
Truthy(x) == x \notin {None, Missing, ""}

\* dict.get(key, default)
Get(v, default) == IF v = Missing THEN default ELSE v

\* Default reason of handle_worker_blocked.
DEFAULT_BLOCKED_REASON == "blocked by system"

(***************************************************************************)
(* Reconciliation store (src/database.py)                                  *)
(***************************************************************************)

RecordFields ==
    {"nationalIdNumber", "workerId", "status", "hikcentral_person_id",
     "has_privilege_access", "face_image_path", "blockedReason",
     "_created_at", "_updated_at"}

\* datetime.utcnow().isoformat(): the model has no clock, a stamp is a stamp.
UtcNow == "utcnow"

\* Database.read: the whole record list.
Read(data) == data

\* The query {'nationalIdNumber': national_id} against one record.
Matches(record, national_id) == record.nationalIdNumber = national_id

\* Database.find_one / WorkersDatabase.get_by_national_id:
\* <<>> for None, <<record>> for the first match.
RECURSIVE FindOne(_, _)
FindOne(data, national_id) ==
    IF data = <<>> THEN <<>>
    ELSE IF Matches(Head(data), national_id) THEN <<Head(data)>>
    ELSE FindOne(Tail(data), national_id)

GetByNationalId(data, national_id) == FindOne(Read(data), national_id)

\* dict.update replacing the whole record: fields not supplied are lost.
MergeReplacing(record, update) ==
    [f \in DOMAIN record |-> IF f \in DOMAIN update THEN update[f] ELSE None]

\* dict.update: every supplied field overwrites, the others stay.
Merge(record, update) ==
    [f \in DOMAIN record |-> IF f \in DOMAIN update THEN update[f] ELSE record[f]]

\* Database.delete called where update is: the matching records are removed.
DeleteInsteadOfUpdate(data, national_id, update) ==
    LET Keep(record) == ~Matches(record, national_id) IN SelectSeq(data, Keep)

\* Database.update: merge `update` into every matching record and refresh
\* its _updated_at.
Update(data, national_id, update) ==
    [i \in DOMAIN data |->
        IF Matches(data[i], national_id)
        THEN Merge(Merge(data[i], update), "_updated_at" :> UtcNow)
        ELSE data[i]]

\* Database.insert: stamp and append.  Fields the caller did not supply are
\* absent.
Insert(data, record) ==
    Append(data,
           [f \in RecordFields |->
              IF f \in {"_created_at", "_updated_at"} THEN UtcNow
              ELSE IF f \in DOMAIN record THEN record[f]
              ELSE None])

\* upsert_worker without the lookup of the existing record.
UpsertWorkerAlwaysInsert(data, worker_data) == Insert(data, worker_data)

\* WorkersDatabase.upsert_worker
UpsertWorker(data, worker_data) ==
    IF GetByNationalId(data, worker_data.nationalIdNumber) # <<>>
    THEN Update(data, worker_data.nationalIdNumber, worker_data)
    ELSE Insert(data, worker_data)

GetAllWorkers(data) == Read(data)

\* The Database objects opened on workers.json, each with a lock of its own:
\* EventProcessor.workers_db and the module-level workers_db of the dashboard.
Instances == {"engine", "dashboard"}

\* Threads calling insert() on the engine's object (the scheduler thread that
\* runs the sync job, and a second caller), and the dashboard thread.
Writers == {"sync", "other"}
Threads == Writers \cup {"dashboard"}

\* The Database object each thread goes through.
InstanceOf(t) == IF t \in Writers THEN "engine" ELSE "dashboard"

\* Largest number of records at which an insert() is still started.
MaxRecords == 2

\* Database.read on the file: json.loads of a truncated file raises, and the
\* except clause returns [].
ReadFile(f) == IF f.torn THEN <<>> ELSE Read(f.data)

(***************************************************************************)
(* Admission gate (src/processors/image_processor.py)                      *)
(***************************************************************************)

\* face_recognition.face_distance, in tenths: 0 for the same face.
FaceDistance(a, b) == 6 * (IF a >= b THEN a - b ELSE b - a)

\* ImageProcessor.get_face_encoding: <<>> for None (unreadable file or no
\* face), <<face>> otherwise.
GetFaceEncoding(files, image_path) ==
    IF files[image_path] = <<>> THEN <<>>
    ELSE IF files[image_path][1] = NoFace THEN <<>>
    ELSE files[image_path]

\* compare_faces with a strict test: the boundary similarity is no match.
CompareFacesStrict(face_encoding, known_encoding) ==
    LET similarity == 10 - FaceDistance(known_encoding[1], face_encoding[1])
    IN  <<similarity > FACE_SIMILARITY_THRESHOLD, similarity>>

\* ImageProcessor.compare_faces against a one-element list:
\* <<is_match, similarity>>.
CompareFaces(face_encoding, known_encoding) ==
    LET similarity == 10 - FaceDistance(known_encoding[1], face_encoding[1])
    IN  <<similarity >= FACE_SIMILARITY_THRESHOLD, similarity>>

\* list.sort(key=similarity, reverse=True): stable, descending.
RECURSIVE InsertDesc(_, _)
InsertDesc(sorted, m) ==
    IF sorted = <<>> THEN <<m>>
    ELSE IF Head(sorted)[2] >= m[2]
         THEN <<Head(sorted)>> \o InsertDesc(Tail(sorted), m)
         ELSE <<m>> \o sorted

\* The match list left in scan order.
SortKeepingOrder(matches) == matches

RECURSIVE SortDesc(_)
SortDesc(matches) ==
    IF matches = <<>> THEN <<>>
    ELSE InsertDesc(SortDesc(SubSeq(matches, 1, Len(matches) - 1)),
                    matches[Len(matches)])

\* The scan loop of find_duplicate_faces.
RECURSIVE ScanFaces(_, _, _)
ScanFaces(files, new_encoding, existing_faces) ==
    IF existing_faces = <<>> THEN <<>>
    ELSE LET existing_path     == Head(existing_faces)
             existing_encoding == GetFaceEncoding(files, existing_path)
             rest == ScanFaces(files, new_encoding, Tail(existing_faces))
         IN  IF existing_encoding = <<>> THEN rest
             ELSE LET cmp == CompareFaces(new_encoding, existing_encoding)
                  IN  IF cmp[1] THEN <<(<<existing_path, cmp[2]>>)>> \o rest
                      ELSE rest

\* ImageProcessor.find_duplicate_faces: the list of <<path, similarity>>.
FindDuplicateFaces(files, new_face_path, existing_faces) ==
    LET new_encoding == GetFaceEncoding(files, new_face_path)
    IN  IF new_encoding = <<>> THEN <<>>
        ELSE SortDesc(ScanFaces(files, new_encoding, existing_faces))

(***************************************************************************)
(* Upstream event source (src/api/supabase_api.py)                         *)
(***************************************************************************)

\* An update_worker_status without the test for a missing reason.
UpdateWorkerStatusUnchecked(worker_id, national_id_number, status, external_id, blocked_reason) ==
    IF ~Truthy(worker_id) /\ ~Truthy(national_id_number) THEN <<>>
    ELSE IF status \notin {"approved", "blocked"} THEN <<>>
    ELSE << [status |-> status,
             workerId |-> IF Truthy(worker_id) THEN worker_id ELSE Missing,
             nationalIdNumber |->
                 IF Truthy(national_id_number) THEN national_id_number ELSE Missing,
             externalId |-> IF Truthy(external_id) THEN external_id ELSE Missing,
             blockedReason |->
                 IF Truthy(blocked_reason) THEN blocked_reason ELSE Missing] >>

\* An update_worker_status that sends rejections only.
UpdateWorkerStatusOnlyBlocked(worker_id, national_id_number, status, external_id, blocked_reason) ==
    IF status # "blocked" \/ ~Truthy(blocked_reason) THEN <<>>
    ELSE << [status |-> status,
             workerId |-> IF Truthy(worker_id) THEN worker_id ELSE Missing,
             nationalIdNumber |->
                 IF Truthy(national_id_number) THEN national_id_number ELSE Missing,
             externalId |-> IF Truthy(external_id) THEN external_id ELSE Missing,
             blockedReason |-> blocked_reason] >>

\* SupabaseAPI.update_worker_status: the requests it sends (none or one).
UpdateWorkerStatus(worker_id, national_id_number, status, external_id, blocked_reason) ==
    IF ~Truthy(worker_id) /\ ~Truthy(national_id_number) THEN <<>>
    ELSE IF status \notin {"approved", "blocked"} THEN <<>>
    ELSE IF status = "blocked" /\ ~Truthy(blocked_reason) THEN <<>>
    ELSE << [status |-> status,
             workerId |-> IF Truthy(worker_id) THEN worker_id ELSE Missing,
             nationalIdNumber |->
                 IF Truthy(national_id_number) THEN national_id_number ELSE Missing,
             externalId |-> IF Truthy(external_id) THEN external_id ELSE Missing,
             blockedReason |->
                 IF Truthy(blocked_reason) THEN blocked_reason ELSE Missing] >>

(***************************************************************************)
(* Access-control system (src/api/hikcentral_api.py)                       *)
(***************************************************************************)

\* _get_content_md5: base64 of the MD5 digest, kept symbolic.
GetContentMd5(body) == "md5(" \o body \o ")"

\* _get_authenticated_headers: header name -> value.  Content-MD5 is set only
\* for a truthy body.
GetAuthenticatedHeaders(body, app_key, nonce, timestamp) ==
    LET headers ==
          [h \in {"Accept", "Content-Type", "X-Ca-Key", "X-Ca-Nonce",
                  "X-Ca-Timestamp", "X-Ca-Signature-Headers", "userId"} |->
             CASE h = "Accept" -> "application/json"
               [] h = "Content-Type" -> "application/json;charset=UTF-8"
               [] h = "X-Ca-Key" -> app_key
               [] h = "X-Ca-Nonce" -> nonce
               [] h = "X-Ca-Timestamp" -> timestamp
               [] h = "userId" -> "user"
               [] OTHER -> "x-ca-key,x-ca-nonce,x-ca-timestamp"]
    IN  IF body # ""
        THEN ("Content-MD5" :> GetContentMd5(body)) @@ headers
        ELSE headers

\* headers.get(name, default)
HeaderGet(headers, name, default) ==
    IF name \in DOMAIN headers THEN headers[name] ELSE default

\* The lines of the string to sign with an empty line where Content-MD5 is
\* absent.
StringToSignBlankMd5(method, uri, headers) ==
    << method,
       HeaderGet(headers, "Accept", "application/json"),
       HeaderGet(headers, "Content-MD5", ""),
       HeaderGet(headers, "Content-Type", "application/json;charset=UTF-8"),
       "x-ca-key:" \o HeaderGet(headers, "x-ca-key",
                                HeaderGet(headers, "X-Ca-Key", None)),
       "x-ca-nonce:" \o HeaderGet(headers, "x-ca-nonce",
                                  HeaderGet(headers, "X-Ca-Nonce", None)),
       "x-ca-timestamp:" \o HeaderGet(headers, "x-ca-timestamp",
                                      HeaderGet(headers, "X-Ca-Timestamp", None)),
       uri >>

\* _generate_signature up to the join: `parts`, the lines that
\* '\n'.join(parts) puts into string_to_sign, in order.
StringToSign(method, uri, headers) ==
    << method, HeaderGet(headers, "Accept", "application/json") >>
    \o ( IF "Content-MD5" \in DOMAIN headers
         THEN << headers["Content-MD5"] >>
         ELSE <<>> )
    \o << HeaderGet(headers, "Content-Type", "application/json;charset=UTF-8"),
          "x-ca-key:" \o HeaderGet(headers, "x-ca-key",
                                   HeaderGet(headers, "X-Ca-Key", None)),
          "x-ca-nonce:" \o HeaderGet(headers, "x-ca-nonce",
                                     HeaderGet(headers, "X-Ca-Nonce", None)),
          "x-ca-timestamp:" \o HeaderGet(headers, "x-ca-timestamp",
                                         HeaderGet(headers, "X-Ca-Timestamp", None)),
          uri >>

\* The JSON text of the string "0", as against the number 0.
JsonStringZero == "\"0\""

\* The dict parsed from the response is truthy: it has at least one key.
BodyTruthy(body) == body.code # Missing \/ body.data # Missing

\* HikCentralAPI._make_request from requests.post on: <<>> for None, else
\* <<response_body>>.  requests.post raises on a transport failure; the body
\* is None when response.text is empty; the code test applies to a truthy
\* body only; raise_for_status raises for a status of 400 and above.
MakeRequest(response) ==
    IF response.transport # "ok" THEN <<>>
    ELSE IF response.empty
         THEN <<>>
    ELSE IF BodyTruthy(response.body) /\ response.body.code # JsonStringZero
         THEN <<>>
    ELSE IF response.status >= 400
         THEN <<>>
    ELSE <<response.body>>

\* `result and result.get('code') == '0'` of delete_person,
\* add_to_privilege_group and remove_from_privilege_group.
ResultAccepted(result) ==
    /\ result # <<>>
    /\ BodyTruthy(result[1])
    /\ result[1].code = JsonStringZero

\* What add_person makes of the result of _make_request.
AddPersonResponseOf(result) ==
    IF result = <<>> \/ ~BodyTruthy(result[1]) THEN "failed"
    ELSE IF result[1].data \in {Missing, "text"} THEN "data_not_dict"
    ELSE IF result[1].data = "object_with_personId" THEN "personId"
    ELSE "no_id"

\* What the remote answers to person/single/add, as add_person sees it: no
\* usable response, an accepted request whose data is not an object, or one
\* whose data carries a personId.  (add_person also accepts a data object
\* without an id and then falls back to the person code.)
AddPersonResponses == {"failed", "data_not_dict", "personId"}

\* HikCentralAPI.add_person: the person id, or None.
AddPerson(response, person_code) ==
    CASE response = "failed"        -> None
      [] response = "data_not_dict" -> None
      [] response = "personId"      -> RemotePersonId[person_code]
      [] OTHER                      -> person_code

(***************************************************************************)
(* Event processor (src/processors/event_processor.py)                     *)
(***************************************************************************)

Call(name, arg, ok) == [name |-> name, arg |-> arg, ok |-> ok]

\* The handler returns: the store, the disk, and what it was given and did.
\* `gate` is empty when the gate was not reached, else it holds the known face
\* paths handed to find_duplicate_faces and the matches it returned.
\* `steps` names, in the order the code reaches them, the face download, the
\* gate evaluation, the remote calls, the store write and the upstream report.
\* `id_card` tells what became of the optional id-card image.
Finish(op, w, gate, calls, ups, steps, id_card, newdb, newdisk) ==
    /\ db' = newdb
    /\ disk' = newdisk
    /\ last' = [op |-> op, w |-> w, gate |-> gate, calls |-> calls, ups |-> ups,
                steps |-> steps, id_card |-> id_card]

\* The optional id-card image of a creation payload: the payload names no
\* URL for it, or download_image(id_card_url, id_card_path) succeeds or fails.
IdCardDownloads == {"no_url", "downloaded", "failed"}

\* One "upstream" step for each update that update_worker_status posted.
UpstreamSteps(ups) == [i \in DOMAIN ups |-> "upstream"]

\* The known faces taken from approved workers only.
ExistingFacePathsOfApproved(data, files) ==
    LET existing_workers == GetAllWorkers(data)
        keep == {i \in DOMAIN existing_workers :
                    /\ existing_workers[i].status = "approved"
                    /\ files[existing_workers[i].face_image_path] # <<>>}
        F[i \in 0 .. Len(existing_workers)] ==
            IF i = 0 THEN <<>>
            ELSE IF i \in keep
                 THEN Append(F[i - 1], existing_workers[i].face_image_path)
                 ELSE F[i - 1]
    IN  F[Len(existing_workers)]

\* existing_face_paths of handle_worker_created.
ExistingFacePaths(data, files) ==
    LET existing_workers == GetAllWorkers(data)
        keep == {i \in DOMAIN existing_workers :
                    /\ Truthy(existing_workers[i].face_image_path)
                    /\ files[existing_workers[i].face_image_path] # <<>>}
        F[i \in 0 .. Len(existing_workers)] ==
            IF i = 0 THEN <<>>
            ELSE IF i \in keep
                 THEN Append(F[i - 1], existing_workers[i].face_image_path)
                 ELSE F[i - 1]
    IN  F[Len(existing_workers)]

\* The reason sent upstream when the gate rejects: cites the top similarity.
DuplicateReason(similarity) ==
    IF similarity = 10 THEN "face match 100.0%"
    ELSE IF similarity = 4 THEN "face match 40.0%"
    ELSE "face match"

\* A pending record that claims the access grant.
PendingRecordWithGrant(worker_id, national_id, face_path) ==
    [workerId |-> worker_id,
     nationalIdNumber |-> national_id,
     status |-> "pending",
     hikcentral_person_id |-> "",
     face_image_path |-> face_path,
     has_privilege_access |-> TRUE]

\* The record saved when add_person fails.
PendingRecord(worker_id, national_id, face_path) ==
    [workerId |-> worker_id,
     nationalIdNumber |-> national_id,
     status |-> "pending",
     hikcentral_person_id |-> "",
     face_image_path |-> face_path,
     has_privilege_access |-> FALSE]

\* The record of a provisioned worker saved without the approval.
ApprovedRecordStillPending(worker_id, national_id, person_id, face_path, privilege_result) ==
    [workerId |-> worker_id,
     nationalIdNumber |-> national_id,
     status |-> "pending",
     hikcentral_person_id |-> person_id,
     face_image_path |-> face_path,
     has_privilege_access |-> TRUE]

\* The record saved when add_person succeeds.  The code writes
\* has_privilege_access = True whatever add_to_privilege_group answered.
ApprovedRecord(worker_id, national_id, person_id, face_path, privilege_result) ==
    [workerId |-> worker_id,
     nationalIdNumber |-> national_id,
     status |-> "approved",
     hikcentral_person_id |-> person_id,
     face_image_path |-> face_path,
     has_privilege_access |-> TRUE]

\* The step-2 test made on the record's status instead of its person id.
AlreadySynchronizedByStatus(existing) ==
    existing # <<>> /\ existing[1].status = "approved"

\* The step-2 test of handle_worker_created: the worker is already provisioned.
AlreadySynchronized(existing) ==
    existing # <<>> /\ Truthy(existing[1].hikcentral_person_id)

\* The rejection test passing a single match through.
IsRejectedOnlyIfSeveral(duplicates) == Len(duplicates) > 1

\* `if duplicates:` of handle_worker_created.
IsRejected(duplicates) == duplicates # <<>>

\* Payloads of creation events: complete, or lacking the worker id, the face
\* URL or the national id.
CreatePayloads ==
    { [nationalIdNumber |-> k, id |-> WorkerIds[k], facePhotoUrl |-> u,
       blockedReason |-> Missing] : k \in Keys, u \in {None, "url"} }
    \cup { [nationalIdNumber |-> "k1", id |-> None, facePhotoUrl |-> "url",
            blockedReason |-> Missing],
           [nationalIdNumber |-> None, id |-> "w1", facePhotoUrl |-> "url",
            blockedReason |-> Missing] }

\* A face download whose failure goes unnoticed.
DownloadNeverFails(download) == FALSE

\* `if not self.supabase.download_image(face_url, face_path)`: download_image
\* returned False and wrote no file.
DownloadFailed(download) == download = <<>>

\* handle_worker_created.  The payload's 'id' stands for `workerId or id`;
\* `id_cards` is what can become of the payload's id-card image.
HandleWorkerCreated(w, id_cards) ==
    LET national_id == w.nationalIdNumber
        worker_id   == w.id
        Abandon(steps) ==
            Finish("created", w, <<>>, <<>>, <<>>, steps, "not_reached", db, disk)
    IN
    IF ~Truthy(national_id) \/ ~Truthy(worker_id)
    THEN Abandon(<<>>)
    ELSE
    LET existing == GetByNationalId(db, national_id) IN
    IF AlreadySynchronized(existing)
    THEN Abandon(<<>>)
    ELSE IF ~Truthy(w.facePhotoUrl)
    THEN Abandon(<<>>)
    ELSE
    \* download_image(face_url, face_path): fails, or writes some image
    \E download \in {<<>>} \cup {<<c>> : c \in ImageContents} :
    IF DownloadFailed(download)
    THEN Abandon(<<"download">>)
    ELSE
    \* the id-card image (lines 178-182): its outcome changes nothing below
    \E id_card \in id_cards :
    LET face_path  == national_id
        files      == [disk EXCEPT ![face_path] = download]
        existing_face_paths == ExistingFacePaths(db, files)
        duplicates == FindDuplicateFaces(files, face_path, existing_face_paths)
        gate       == << [known |-> existing_face_paths, matches |-> duplicates] >>
        Stop(calls, ups, steps, newdb) ==
            Finish("created", w, gate, calls, ups, steps, id_card, newdb, files)
    IN
    IF IsRejected(duplicates)
    THEN LET ups == UpdateWorkerStatus(worker_id, national_id, "blocked", None,
                                       DuplicateReason(duplicates[1][2]))
         IN  Stop(<<>>, ups, <<"download", "gate">> \o UpstreamSteps(ups), db)
    ELSE
    \* image_to_base64 and the date / name preparation: go through, give an
    \* empty string, or raise
    \E prep \in {"ok", "b64_empty", "raises"} :
    IF prep # "ok"
    THEN Stop(<<>>, <<>>, <<"download", "gate">>, db)
    ELSE
    \E response \in AddPersonResponses :
    LET person_id == AddPerson(response, worker_id) IN
    IF ~Truthy(person_id)
    THEN Stop(<<Call("createPerson", worker_id, FALSE)>>,
              <<>>,
              <<"download", "gate", "createPerson", "persist">>,
              UpsertWorker(db, PendingRecord(worker_id, national_id, face_path)))
    ELSE
    \E privilege_result \in BOOLEAN :
    LET ups == UpdateWorkerStatus(worker_id, national_id, "approved", person_id,
                                  None)
    IN
    Stop(<<Call("createPerson", worker_id, TRUE),
           Call("grantAccess", person_id, privilege_result)>>,
         ups,
         <<"download", "gate", "createPerson", "grantAccess", "persist">>
            \o UpstreamSteps(ups),
         UpsertWorker(db, ApprovedRecord(worker_id, national_id, person_id,
                                         face_path, privilege_result)))

\* A block that leaves the access grant flag as it was.
BlockedUpdateKeepingAccess(blocked_reason) ==
    [status |-> "blocked",
     blockedReason |-> blocked_reason]

\* The fields handle_worker_blocked writes.
BlockedUpdate(blocked_reason) ==
    [status |-> "blocked",
     blockedReason |-> blocked_reason,
     has_privilege_access |-> FALSE]

\* A deletion that also forgets the remote person id.
DeletedUpdateClearingId ==
    [status |-> "deleted", hikcentral_person_id |-> ""]

\* The fields handle_worker_deleted writes.
DeletedUpdate ==
    [status |-> "deleted"]

\* An unblock that leaves the reason of the block in the record.
UnblockedUpdateKeepingReason ==
    [status |-> "approved",
     has_privilege_access |-> TRUE]

\* The fields handle_worker_unblocked writes.
UnblockedUpdate ==
    [status |-> "approved",
     blockedReason |-> "",
     has_privilege_access |-> TRUE]

\* Payloads of block events: the reason key may be absent, empty or given.
BlockPayloads ==
    { [nationalIdNumber |-> k, id |-> WorkerIds[k],
       facePhotoUrl |-> None, blockedReason |-> r] :
        k \in Keys, r \in {Missing, "", "violation"} }
    \cup { [nationalIdNumber |-> None, id |-> None,
            facePhotoUrl |-> None, blockedReason |-> "violation"] }

\* Payloads of unblock and deletion events.
PlainPayloads ==
    { [nationalIdNumber |-> k, id |-> IF k = None THEN None ELSE WorkerIds[k],
       facePhotoUrl |-> None, blockedReason |-> Missing] : k \in Keys \cup {None} }

\* handle_worker_blocked writing the store whatever the remote call answered.
HandleWorkerBlockedIgnoringFailure(w) ==
    LET national_id    == w.nationalIdNumber
        blocked_reason == Get(w.blockedReason, DEFAULT_BLOCKED_REASON)
        worker         == GetByNationalId(db, national_id)
        Stop(calls, ups, steps, newdb) ==
            Finish("blocked", w, <<>>, calls, ups, steps, "not_reached", newdb, disk)
    IN
    IF worker = <<>>
    THEN Stop(<<>>, <<>>, <<>>, db)
    ELSE
    LET person_id == worker[1].hikcentral_person_id IN
    IF ~Truthy(person_id)
    THEN Stop(<<>>, <<>>, <<>>, db)
    ELSE
    \E revoked \in BOOLEAN :
    Stop(<<Call("revokeAccess", person_id, revoked)>>, <<>>,
         <<"revokeAccess", "persist">>,
         Update(db, national_id, BlockedUpdate(blocked_reason)))

HandleWorkerBlocked(w) ==
    LET national_id    == w.nationalIdNumber
        blocked_reason == Get(w.blockedReason, DEFAULT_BLOCKED_REASON)
        worker         == GetByNationalId(db, national_id)
        Stop(calls, ups, steps, newdb) ==
            Finish("blocked", w, <<>>, calls, ups, steps, "not_reached", newdb, disk)
    IN
    IF worker = <<>>
    THEN Stop(<<>>, <<>>, <<>>, db)
    ELSE
    LET person_id == worker[1].hikcentral_person_id IN
    IF ~Truthy(person_id)
    THEN Stop(<<>>, <<>>, <<>>, db)
    ELSE
    \* remove_from_privilege_group(person_id)
    \E revoked \in BOOLEAN :
    IF revoked
    THEN Stop(<<Call("revokeAccess", person_id, TRUE)>>, <<>>,
              <<"revokeAccess", "persist">>,
              Update(db, national_id, BlockedUpdate(blocked_reason)))
    ELSE Stop(<<Call("revokeAccess", person_id, FALSE)>>, <<>>,
              <<"revokeAccess">>, db)

HandleWorkerDeleted(w) ==
    LET national_id == w.nationalIdNumber
        worker      == GetByNationalId(db, national_id)
        Stop(calls, ups, steps, newdb) ==
            Finish("deleted", w, <<>>, calls, ups, steps, "not_reached", newdb, disk)
    IN
    IF worker = <<>>
    THEN Stop(<<>>, <<>>, <<>>, db)
    ELSE
    LET person_id == worker[1].hikcentral_person_id IN
    IF ~Truthy(person_id)
    THEN Stop(<<>>, <<>>, <<>>, db)
    ELSE
    \* delete_person(person_id)
    \E deleted \in BOOLEAN :
    IF deleted
    THEN Stop(<<Call("deletePerson", person_id, TRUE)>>, <<>>,
              <<"deletePerson", "persist">>,
              Update(db, national_id, DeletedUpdate))
    ELSE Stop(<<Call("deletePerson", person_id, FALSE)>>, <<>>,
              <<"deletePerson">>, db)

HandleWorkerUnblocked(w) ==
    LET national_id == w.nationalIdNumber
        worker_id   == w.id
        worker      == GetByNationalId(db, national_id)
        Stop(calls, ups, steps, newdb) ==
            Finish("unblocked", w, <<>>, calls, ups, steps, "not_reached", newdb, disk)
    IN
    IF worker = <<>>
    THEN Stop(<<>>, <<>>, <<>>, db)
    ELSE
    LET person_id == worker[1].hikcentral_person_id IN
    IF ~Truthy(person_id)
    THEN Stop(<<>>, <<>>, <<>>, db)
    ELSE
    \* add_to_privilege_group(person_id)
    \E granted \in BOOLEAN :
    IF granted
    THEN LET ups == UpdateWorkerStatus(worker_id, national_id, "approved",
                                       person_id, None)
         IN  Stop(<<Call("grantAccess", person_id, TRUE)>>, ups,
                  <<"grantAccess", "persist">> \o UpstreamSteps(ups),
                  Update(db, national_id, UnblockedUpdate))
    ELSE Stop(<<Call("grantAccess", person_id, FALSE)>>, <<>>,
              <<"grantAccess">>, db)

\* The engine and the dashboard have been constructed and nothing has run.
Started ==
    /\ db = <<>>
    /\ disk = [k \in Keys |-> <<>>]
    /\ last = [op |-> "none",
               w |-> [nationalIdNumber |-> None, id |-> None,
                      facePhotoUrl |-> None, blockedReason |-> Missing],
               gate |-> <<>>, calls |-> <<>>, ups |-> <<>>, steps |-> <<>>,
               id_card |-> "not_reached"]
    /\ events = <<>>
    /\ next = 0
    /\ dispatched = <<>>
    /\ persisted = {}
    /\ file = [data |-> <<>>, torn |-> FALSE]
    /\ lock = [d \in Instances |-> "free"]
    /\ pc = [t \in Threads |-> "idle"]
    /\ local = [t \in Writers |-> <<>>]
    /\ seen = <<>>

Init ==
    /\ Started
    /\ call = <<>>
    /\ outcome = <<>>

\* One event of each lifecycle kind, delivered on its own.
WorkerCreated ==
    /\ \E w \in CreatePayloads : HandleWorkerCreated(w, IdCardDownloads)
    /\ UNCHANGED <<batchVars, storeVars, callVars>>

WorkerBlocked ==
    /\ \E w \in BlockPayloads : HandleWorkerBlocked(w)
    /\ UNCHANGED <<batchVars, storeVars, callVars>>

WorkerDeleted ==
    /\ \E w \in PlainPayloads : HandleWorkerDeleted(w)
    /\ UNCHANGED <<batchVars, storeVars, callVars>>

WorkerUnblocked ==
    /\ \E w \in PlainPayloads : HandleWorkerUnblocked(w)
    /\ UNCHANGED <<batchVars, storeVars, callVars>>

Next ==
    \/ WorkerCreated
    \/ WorkerBlocked
    \/ WorkerDeleted
    \/ WorkerUnblocked

Spec == Init /\ [][Next]_vars

(***************************************************************************)
(* One poll cycle (process_events and process_single_event)                *)
(***************************************************************************)

\* Largest number of events one poll returns.
MaxBatch == 2

\* What a poll can return as one element of the list: an event object with a
\* type and a `data` payload, or something that is not an object at all.
Event(type, data) == [dict |-> TRUE, type |-> type, data |-> data]

NoPayload ==
    [nationalIdNumber |-> None, id |-> None, facePhotoUrl |-> None,
     blockedReason |-> Missing]

NotAnObject == [dict |-> FALSE, type |-> None, data |-> NoPayload]

\* The elements drawn for a poll: creation events (complete, or failing the
\* handler's validation), an event whose type is none of the strings the
\* dispatch compares with (a creation tag in upper case, with a complete
\* payload), and an element that is not an object.  The payloads of a poll
\* name no id-card image.
PolledEvents ==
    { Event("worker.created", w) :
        w \in {p \in CreatePayloads : Truthy(p.facePhotoUrl) /\ Truthy(p.id)} }
    \cup { Event("WORKER.CREATED",
                 [nationalIdNumber |-> "k1", id |-> WorkerIds["k1"],
                  facePhotoUrl |-> "url", blockedReason |-> Missing]),
           NotAnObject }

\* SupabaseAPI.get_pending_events: the list is returned as received.
GetPendingEventsResults ==
    UNION { [1 .. n -> PolledEvents] : n \in 0 .. MaxBatch }

\* process_events up to the loop: fetch, return at once on an empty list.
GetPendingEvents ==
    /\ next = 0
    /\ \E result \in GetPendingEventsResults :
          /\ events' = result
          /\ next' = IF result = <<>> THEN 0 ELSE 1
    /\ dispatched' = <<>>
    /\ persisted' = {}
    /\ UNCHANGED <<db, disk, last, storeVars, callVars>>

\* The loop of process_events moves on, or ends after the last event.
Advance == IF next = Len(events) THEN 0 ELSE next + 1

\* One iteration of `for event in events`: process_single_event(event).
\* event.get('type') is evaluated before the try block, so an element that is
\* not an object raises into process_events, whose except clause ends the
\* poll.  Inside the try block the type selects the handler.
ProcessSingleEvent ==
    /\ next # 0
    /\ dispatched' = Append(dispatched, next)
    /\ UNCHANGED <<events, storeVars, callVars>>
    /\ LET event == events[next] IN
       IF ~event.dict
       THEN /\ next' = 0
            /\ UNCHANGED <<db, disk, last, persisted>>
       ELSE
       /\ next' = Advance
       /\ IF event.type = "worker.created"
          THEN /\ HandleWorkerCreated(event.data, {"no_url"})
               /\ persisted' =
                    IF \E i \in DOMAIN last'.steps : last'.steps[i] = "persist"
                    THEN persisted \cup {event.data.nationalIdNumber}
                    ELSE persisted
          ELSE IF event.type = "worker.blocked"
          THEN HandleWorkerBlocked(event.data) /\ UNCHANGED persisted
          ELSE IF event.type = "worker.deleted"
          THEN HandleWorkerDeleted(event.data) /\ UNCHANGED persisted
          ELSE IF event.type = "worker.unblocked"
          THEN HandleWorkerUnblocked(event.data) /\ UNCHANGED persisted
          ELSE UNCHANGED <<db, disk, last, persisted>>

NextBatch ==
    \/ GetPendingEvents
    \/ ProcessSingleEvent

SpecBatch == Init /\ [][NextBatch]_vars

(***************************************************************************)
(* Threads on the store file (Database.read, write, insert)                *)
(***************************************************************************)

\* insert(), first half: data = self.read() under the lock, then the append.
InsertRead(t) ==
    /\ pc[t] = "idle"
    /\ lock[InstanceOf(t)] = "free"
    /\ Len(file.data) < MaxRecords
    /\ \E k \in Keys :
          local' = [local EXCEPT ![t] =
                      Insert(ReadFile(file), PendingRecord(WorkerIds[k], k, k))]
    /\ pc' = [pc EXCEPT ![t] = "appended"]
    /\ UNCHANGED <<file, lock, seen, db, disk, last, batchVars, callVars>>

\* write(), entry: the lock is taken and write_text opens the file, which
\* truncates it.
WriteOpen(t) ==
    /\ pc[t] = "appended"
    /\ lock[InstanceOf(t)] = "free"
    /\ lock' = [lock EXCEPT ![InstanceOf(t)] = t]
    /\ file' = [file EXCEPT !.torn = TRUE]
    /\ pc' = [pc EXCEPT ![t] = "opened"]
    /\ UNCHANGED <<local, seen, db, disk, last, batchVars, callVars>>

\* write(), exit: the new text is written and the lock released.
WriteClose(t) ==
    /\ pc[t] = "opened"
    /\ file' = [data |-> local[t], torn |-> FALSE]
    /\ lock' = [lock EXCEPT ![InstanceOf(t)] = "free"]
    /\ pc' = [pc EXCEPT ![t] = "idle"]
    /\ local' = [local EXCEPT ![t] = <<>>]
    /\ UNCHANGED <<seen, db, disk, last, batchVars, callVars>>

\* A dashboard route is entered.
DashboardRequest ==
    /\ pc["dashboard"] = "idle"
    /\ pc' = [pc EXCEPT !["dashboard"] = "route"]
    /\ UNCHANGED <<file, lock, local, seen, db, disk, last, batchVars, callVars>>

\* workers_db.get_all_workers() of the route: read() under the dashboard
\* object's lock.
DashboardRead ==
    /\ pc["dashboard"] = "route"
    /\ lock[InstanceOf("dashboard")] = "free"
    /\ seen' = ReadFile(file)
    /\ pc' = [pc EXCEPT !["dashboard"] = "idle"]
    /\ UNCHANGED <<file, lock, local, db, disk, last, batchVars, callVars>>

NextStore ==
    \/ \E t \in Writers : InsertRead(t)
    \/ \E t \in Writers : WriteOpen(t)
    \/ \E t \in Writers : WriteClose(t)
    \/ DashboardRequest
    \/ DashboardRead

SpecStore == Init /\ [][NextStore]_vars

(***************************************************************************)
(* update_worker_status called on its own                                  *)
(***************************************************************************)

\* Arguments of update_worker_status: each one absent, empty or given, and
\* statuses inside and outside the two the upstream accepts.
UpdateWorkerStatusCalls ==
    [worker_id : {None, "", "w1"},
     national_id_number : {None, "", "k1"},
     status : {"approved", "blocked", "pending", "deleted"},
     external_id : {None, "p1"},
     blocked_reason : {None, "", "violation"}]

InitUpstream ==
    /\ Started
    /\ call \in UpdateWorkerStatusCalls
    /\ outcome = <<>>

\* update_worker_status(...): `sent` is the requests posted, `returned` the
\* boolean given back, True only when a request was posted and _make_request
\* gave a truthy answer.
CallUpdateWorkerStatus ==
    /\ outcome = <<>>
    /\ LET sent == UpdateWorkerStatus(call.worker_id, call.national_id_number,
                                      call.status, call.external_id,
                                      call.blocked_reason)
       IN  \E answered \in BOOLEAN :
             outcome' = << [sent |-> sent,
                           returned |-> (sent # <<>> /\ answered)] >>
    /\ UNCHANGED <<call, db, disk, last, batchVars, storeVars>>

NextUpstream == CallUpdateWorkerStatus

SpecUpstream == InitUpstream /\ [][NextUpstream]_vars

(***************************************************************************)
(* _make_request and its callers, called on their own                      *)
(***************************************************************************)

\* What requests.post meets: a transport failure, or a response with a status
\* (2xx, 3xx, 5xx), a text that is empty or a JSON object whose `code` is the
\* string "0", the number 0, another string or absent, and whose `data` is
\* absent, a text, or an object with or without a personId.
Responses ==
    [transport : {"ok", "timeout"},
     status : {200, 300, 500},
     empty : BOOLEAN,
     body : [code : {JsonStringZero, "0", "\"1\"", Missing},
             data : {Missing, "text", "object_with_personId", "object"}]]

InitRequest ==
    /\ Started
    /\ call \in Responses
    /\ outcome = <<>>

\* One signed call: what _make_request returns, what the boolean operations
\* and add_person (for person code w1) make of it.
CallMakeRequest ==
    /\ outcome = <<>>
    /\ LET result == MakeRequest(call) IN
       outcome' = << [result |-> result,
                      accepted |-> ResultAccepted(result),
                      person_id |-> AddPerson(AddPersonResponseOf(result), "w1")] >>
    /\ UNCHANGED <<call, db, disk, last, batchVars, storeVars>>

NextRequest == CallMakeRequest

SpecRequest == InitRequest /\ [][NextRequest]_vars

(***************************************************************************)
(* Request signing, called on its own                                      *)
(***************************************************************************)

\* The record a successful creation of k leaves, and the same record after a
\* block and an unblock.
CreatedApproved(k) ==
    ApprovedRecord(WorkerIds[k], k, RemotePersonId[WorkerIds[k]], k, TRUE)

ApprovedStoresOf(k) ==
    LET created == UpsertWorker(<<>>, CreatedApproved(k))
    IN  {created, Update(created, k, UnblockedUpdate)}

\* Stores in which k1 is approved, alone or beside k2 approved or pending.
ApprovedStores ==
    ApprovedStoresOf("k1")
    \cup { UpsertWorker(d, CreatedApproved("k2")) : d \in ApprovedStoresOf("k1") }
    \cup { Update(UpsertWorker(d, CreatedApproved("k2")), "k2", UnblockedUpdate) :
             d \in ApprovedStoresOf("k1") }
    \cup { UpsertWorker(d, PendingRecord("w2", "k2", "k2")) :
             d \in ApprovedStoresOf("k1") }

\* The engine holds an approved worker and is about to handle block and
\* unblock events; `call` keeps the store as it was then.
InitRoundTrip ==
    /\ db \in ApprovedStores
    /\ disk = [k \in Keys |->
                 IF GetByNationalId(db, k) = <<>> THEN <<>>
                 ELSE IF k = "k1" THEN <<1>> ELSE <<NumFaces>>]
    /\ last = [op |-> "none",
               w |-> [nationalIdNumber |-> None, id |-> None,
                      facePhotoUrl |-> None, blockedReason |-> Missing],
               gate |-> <<>>, calls |-> <<>>, ups |-> <<>>, steps |-> <<>>,
               id_card |-> "not_reached"]
    /\ events = <<>>
    /\ next = 0
    /\ dispatched = <<>>
    /\ persisted = {}
    /\ file = [data |-> <<>>, torn |-> FALSE]
    /\ lock = [d \in Instances |-> "free"]
    /\ pc = [t \in Threads |-> "idle"]
    /\ local = [t \in Writers |-> <<>>]
    /\ seen = <<>>
    /\ call = db
    /\ outcome = <<>>

NextRoundTrip ==
    \/ WorkerBlocked
    \/ WorkerUnblocked

SpecRoundTrip == InitRoundTrip /\ [][NextRoundTrip]_vars

\* The candidate's file and the files of known faces.
NewFacePath == "new_face"
KnownFacePaths == {"face_a", "face_b", "face_c"}

\* A faces directory: each file unreadable (<<>>), without a face, or a face.
FaceFiles ==
    [KnownFacePaths \cup {NewFacePath} -> {<<>>} \cup { <<c>> : c \in ImageContents }]

\* existing_faces: lists of distinct known paths, in any order.
ExistingFaceLists ==
    {<<>>}
    \cup { <<p>> : p \in KnownFacePaths }
    \cup { s \in { <<p, q>> : p \in KnownFacePaths, q \in KnownFacePaths } :
             s[1] # s[2] }
    \cup { s \in { <<p, q, r>> : p \in KnownFacePaths, q \in KnownFacePaths,
                                 r \in KnownFacePaths } :
             s[1] # s[2] /\ s[1] # s[3] /\ s[2] # s[3] }

InitGate ==
    /\ Started
    /\ call \in [files : FaceFiles, existing_faces : ExistingFaceLists]
    /\ outcome = <<>>

\* image_processor.find_duplicate_faces(new_face_path, existing_faces)
CallFindDuplicateFaces ==
    /\ outcome = <<>>
    /\ outcome' = << FindDuplicateFaces(call.files, NewFacePath,
                                        call.existing_faces) >>
    /\ UNCHANGED <<call, db, disk, last, batchVars, storeVars>>

NextGate == CallFindDuplicateFaces

SpecGate == InitGate /\ [][NextGate]_vars

\* A stamp written by an earlier call.
Earlier == "earlier"

\* A record as an earlier insert() and update()s left it.
StoredRecord(national_id, status, blocked_reason) ==
    [nationalIdNumber |-> national_id,
     workerId |-> WorkerIds[national_id],
     status |-> status,
     hikcentral_person_id |->
         IF status = "pending" THEN "" ELSE RemotePersonId[WorkerIds[national_id]],
     has_privilege_access |-> status # "pending",
     face_image_path |-> national_id,
     blockedReason |-> blocked_reason]
    @@ ("_created_at" :> Earlier) @@ ("_updated_at" :> Earlier)

StoredRecords ==
    { StoredRecord(k, st, br) :
        k \in Keys, st \in {"pending", "approved"}, br \in {None, "violation"} }

\* workers.json as upsert_worker finds it: at most one record per key.
StoredData ==
    { d \in {<<>>} \cup { <<r>> : r \in StoredRecords }
                  \cup { <<r1, r2>> : r1 \in StoredRecords, r2 \in StoredRecords } :
        \A i, j \in DOMAIN d : i # j => d[i].nationalIdNumber # d[j].nationalIdNumber }

\* worker_data of upsert_worker: a status patch, a status patch with a
\* reason, and the whole record of an admission.
UpsertWorkerData ==
    UNION { { [nationalIdNumber |-> k, status |-> st] : st \in {"blocked", "deleted"} }
            \cup { [nationalIdNumber |-> k, status |-> "blocked", blockedReason |-> "fraud"] }
            \cup { ApprovedRecord(WorkerIds[k], k, "p9", "new_face", TRUE) }
          : k \in Keys }

InitUpsert ==
    /\ Started
    /\ call \in [data : StoredData, worker_data : UpsertWorkerData]
    /\ outcome = <<>>

\* workers_db.upsert_worker(worker_data) on a store holding `data`.
CallUpsertWorker ==
    /\ outcome = <<>>
    /\ outcome' = << UpsertWorker(call.data, call.worker_data) >>
    /\ UNCHANGED <<call, db, disk, last, batchVars, storeVars>>

NextUpsert == CallUpsertWorker

SpecUpsert == InitUpsert /\ [][NextUpsert]_vars

\* Database.read when reading or parsing the file may raise: the except
\* clause returns [].
ReadOrEmpty(data, fails) == IF fails THEN <<>> ELSE Read(data)

\* Database.insert on a file holding `data`: the file afterwards.
InsertCall(data, record, fails) ==
    Insert(ReadOrEmpty(data, fails), record)

\* Database.update on a file holding `data`: written back only when a record
\* of what was read matched.
UpdateCall(data, national_id, update, fails) ==
    LET read == ReadOrEmpty(data, fails) IN
    IF \E i \in DOMAIN read : Matches(read[i], national_id)
    THEN Update(read, national_id, update)
    ELSE data

\* WorkersDatabase.upsert_worker on a file holding `data`: one read for the
\* lookup, one more inside update or insert.
UpsertWorkerCall(data, worker_data, lookup_fails, fails) ==
    IF FindOne(ReadOrEmpty(data, lookup_fails), worker_data.nationalIdNumber) # <<>>
    THEN UpdateCall(data, worker_data.nationalIdNumber, worker_data, fails)
    ELSE InsertCall(data, worker_data, fails)

StoreWrites == {"insert", "update", "upsert_worker"}

InitWrite ==
    /\ Started
    /\ call \in [op : StoreWrites, data : StoredData,
                  worker_data : UpsertWorkerData,
                  lookup_fails : BOOLEAN, fails : BOOLEAN]
    /\ outcome = <<>>

\* One write operation of the worker store; `outcome` is the file afterwards.
CallStoreWrite ==
    /\ outcome = <<>>
    /\ outcome' =
         << CASE call.op = "insert" ->
                    InsertCall(call.data, call.worker_data, call.fails)
              [] call.op = "update" ->
                    UpdateCall(call.data, call.worker_data.nationalIdNumber,
                               call.worker_data, call.fails)
              [] call.op = "upsert_worker" ->
                    UpsertWorkerCall(call.data, call.worker_data,
                                     call.lookup_fails, call.fails) >>
    /\ UNCHANGED <<call, db, disk, last, batchVars, storeVars>>

NextWrite == CallStoreWrite

SpecWrite == InitWrite /\ [][NextWrite]_vars

\* Requests to sign: body_str is "" when _make_request is given no body.
SignedRequests ==
    [method : {"POST", "GET"},
     uri : {"/artemis/api/resource/v1/person/single/add",
            "/artemis/api/resource/v1/person/single/delete"},
     body : {"", "{\"personId\":\"p1\"}", "{\"personId\":\"p2\"}"},
     app_key : {"key1", "key2"},
     nonce : {"n1", "n2"},
     timestamp : {"1000", "2000", "3000"}]

InitSign ==
    /\ Started
    /\ call \in SignedRequests
    /\ outcome = <<>>

\* The signing part of _make_request: the headers, then the string to sign
\* made from them.
CallGenerateSignature ==
    /\ outcome = <<>>
    /\ LET headers == GetAuthenticatedHeaders(call.body, call.app_key,
                                              call.nonce, call.timestamp)
       IN  outcome' = << [headers |-> headers,
                          string_to_sign |->
                              StringToSign(call.method, call.uri, headers)] >>
    /\ UNCHANGED <<call, db, disk, last, batchVars, storeVars>>

NextSign == CallGenerateSignature

SpecSign == InitSign /\ [][NextSign]_vars

(***************************************************************************)
(* Observations used by the properties                                     *)
(***************************************************************************)

\* The store record of an identity key: <<>> or <<record>>.
RecordOf(data, k) == GetByNationalId(data, k)

\* The handler invocation l issued the named call to the access-control system.
Issued(l, name) == \E i \in DOMAIN l.calls : l.calls[i].name = name

\* The named call was issued and answered with success / with failure.
Succeeded(l, name) ==
    \E i \in DOMAIN l.calls : l.calls[i].name = name /\ l.calls[i].ok
Failed(l, name) ==
    \E i \in DOMAIN l.calls : l.calls[i].name = name /\ ~l.calls[i].ok

\* The invocation reached the admission gate; what the gate returned.
GateRan(l) == l.gate # <<>>
GateMatches(l) == l.gate[1].matches
GateKnown(l) == l.gate[1].known

\* No record of another worker has a cached face that matches k's image.
NoOtherWorkerMatches(data, files, k) ==
    \A i \in DOMAIN data :
        LET other == data[i].face_image_path IN
        (data[i].nationalIdNumber # k /\ Truthy(other))
            => \/ GetFaceEncoding(files, other) = <<>>
               \/ GetFaceEncoding(files, k) = <<>>
               \/ ~CompareFaces(GetFaceEncoding(files, k),
                                GetFaceEncoding(files, other))[1]

(***************************************************************************)
(* Properties                                                              *)
(***************************************************************************)

\* C1: a creation event that passes the gate with no match and whose
\* createPerson and grantAccess calls both succeed leaves the store record of
\* its identity key approved, with a non-empty hikcentral_person_id and
\* has_privilege_access = TRUE.
C1_CreatedApproved ==
    ( /\ last.op = "created"
      /\ GateRan(last) /\ GateMatches(last) = <<>>
      /\ Succeeded(last, "createPerson")
      /\ Succeeded(last, "grantAccess") )
    => LET r == RecordOf(db, last.w.nationalIdNumber) IN
       /\ r # <<>>
       /\ r[1].status = "approved"
       /\ Truthy(r[1].hikcentral_person_id)
       /\ r[1].has_privilege_access = TRUE

\* C1 witness: a second worker went through the gate against the first one's
\* cached face and was created with both calls succeeding.
C1_Witness ==
    /\ last.op = "created"
    /\ GateRan(last) /\ GateMatches(last) = <<>>
    /\ Succeeded(last, "createPerson")
    /\ Succeeded(last, "grantAccess")
    /\ Len(db) = 2
    /\ \A k \in Keys : GetFaceEncoding(disk, k) # <<>>
    /\ RecordOf(db, last.w.nationalIdNumber)[1].status = "approved"

\* C2: when the gate returns at least one match, the creation issues no
\* createPerson call and the record of the identity key, if there is one, is
\* not approved afterwards.
C2_RejectedNotProvisioned ==
    ( /\ last.op = "created"
      /\ GateRan(last) /\ GateMatches(last) # <<>> )
    => /\ ~Issued(last, "createPerson")
       /\ LET r == RecordOf(db, last.w.nationalIdNumber) IN
          r # <<>> => r[1].status # "approved"

\* C2 witness: the gate matched the face of another worker at the threshold
\* itself, for an identity key that has a record.
C2_Witness ==
    /\ last.op = "created"
    /\ GateRan(last)
    /\ \E i \in DOMAIN GateMatches(last) :
          /\ GateMatches(last)[i][1] # last.w.nationalIdNumber
          /\ GateMatches(last)[i][2] = FACE_SIMILARITY_THRESHOLD
    /\ RecordOf(db, last.w.nationalIdNumber) # <<>>

\* C3: when the candidate face image yields no feature vector, the creation
\* issues no createPerson call and does not store the worker as approved.
C3_NoEncodingNotApproved ==
    ( /\ last.op = "created"
      /\ GateRan(last)
      /\ GetFaceEncoding(disk, last.w.nationalIdNumber) = <<>> )
    => /\ ~Issued(last, "createPerson")
       /\ LET r == RecordOf(db, last.w.nationalIdNumber) IN
          r # <<>> => r[1].status # "approved"

\* C4: once the record of an identity key has a non-empty
\* hikcentral_person_id, a creation event for that key issues no createPerson
\* call.
C4_CreateIdempotent ==
    [][ \A k \in Keys :
          ( /\ RecordOf(db, k) # <<>>
            /\ Truthy(RecordOf(db, k)[1].hikcentral_person_id)
            /\ last'.op = "created"
            /\ last'.w.nationalIdNumber = k )
          => ~Issued(last', "createPerson") ]_vars

\* C4 witness: a complete creation event arrived for a worker that is stored
\* with a person id and not approved; it issued nothing.
C4_Witness ==
    /\ last.op = "created"
    /\ Truthy(last.w.id) /\ Truthy(last.w.facePhotoUrl)
    /\ last.calls = <<>>
    /\ ~GateRan(last)
    /\ LET r == RecordOf(db, last.w.nationalIdNumber) IN
       /\ r # <<>>
       /\ Truthy(r[1].hikcentral_person_id)
       /\ r[1].status = "blocked"

\* C5: a record has has_privilege_access = TRUE only if its status is
\* approved and its hikcentral_person_id is non-empty.
C5_AccessOnlyWhenApproved ==
    \A i \in DOMAIN db :
        db[i].has_privilege_access = TRUE
        => /\ db[i].status = "approved"
           /\ Truthy(db[i].hikcentral_person_id)

\* C6: when createPerson succeeds and grantAccess fails, the stored record
\* has its hikcentral_person_id set and has_privilege_access = FALSE.
C6_PartialSuccessVisible ==
    ( /\ last.op = "created"
      /\ Succeeded(last, "createPerson")
      /\ Failed(last, "grantAccess") )
    => LET r == RecordOf(db, last.w.nationalIdNumber) IN
       /\ r # <<>>
       /\ Truthy(r[1].hikcentral_person_id)
       /\ r[1].has_privilege_access = FALSE

\* C7: once a record's status is deleted, no event changes it to anything
\* else.
C7_DeletedIsTerminal ==
    [][ \A k \in Keys :
          ( /\ RecordOf(db, k) # <<>>
            /\ RecordOf(db, k)[1].status = "deleted" )
          => /\ RecordOf(db', k) # <<>>
             /\ RecordOf(db', k)[1].status = "deleted" ]_vars

\* C8: a block event whose payload has no non-empty blockedReason (key absent
\* or value empty) issues no revokeAccess call and leaves the store as it was.
C8_BlockWithoutReasonRejected ==
    [][ ( /\ last'.op = "blocked"
          /\ ~Truthy(last'.w.blockedReason) )
        => /\ ~Issued(last', "revokeAccess")
           /\ db' = db ]_vars

\* C9: every record with status blocked has a non-empty blockedReason.
C9_BlockedHasReason ==
    \A i \in DOMAIN db :
        db[i].status = "blocked" => Truthy(db[i].blockedReason)

\* C10: a creation event re-delivered for a worker stored as pending with an
\* empty hikcentral_person_id, whose image was downloaded and prepared and
\* matches no other worker's face, issues createPerson, and ends approved when
\* createPerson succeeds.
C10_PendingIsRetried ==
    [][ \A k \in Keys :
          ( /\ RecordOf(db, k) # <<>>
            /\ RecordOf(db, k)[1].status = "pending"
            /\ ~Truthy(RecordOf(db, k)[1].hikcentral_person_id)
            /\ last'.op = "created"
            /\ last'.w.nationalIdNumber = k
            /\ GateRan(last')
            /\ NoOtherWorkerMatches(db, disk', k)
            \* the preparation after the gate did not give up
            /\ ~(GateMatches(last') = <<>> /\ last'.calls = <<>>) )
          => /\ Issued(last', "createPerson")
             /\ Succeeded(last', "createPerson")
                  => RecordOf(db', k)[1].status = "approved" ]_vars

\* C11: the known face images handed to the gate by a creation never include
\* the cached face image of the worker being created.
C11_KnownFacesExcludeSelf ==
    [][ ( /\ last'.op = "created"
          /\ GateRan(last') )
        => LET known == ExistingFacePaths(db, disk') IN
           \A i \in DOMAIN known : known[i] # last'.w.nationalIdNumber ]_vars

\* C12: once a record's hikcentral_person_id is non-empty, every event leaves
\* it with that same value.
C12_PersonIdKept ==
    [][ \A k \in Keys :
          ( /\ RecordOf(db, k) # <<>>
            /\ Truthy(RecordOf(db, k)[1].hikcentral_person_id) )
          => /\ RecordOf(db', k) # <<>>
             /\ RecordOf(db', k)[1].hikcentral_person_id
                  = RecordOf(db, k)[1].hikcentral_person_id ]_vars

\* C12 witness: a provisioned worker has been deleted and still carries its
\* person id.
C12_Witness ==
    /\ last.op = "deleted"
    /\ Succeeded(last, "deletePerson")
    /\ LET r == RecordOf(db, last.w.nationalIdNumber) IN
       /\ r # <<>>
       /\ r[1].status = "deleted"
       /\ Truthy(r[1].hikcentral_person_id)

\* C13: the store holds at most one record per national id.
C13_OneRecordPerKey ==
    \A i, j \in DOMAIN db :
        db[i].nationalIdNumber = db[j].nationalIdNumber => i = j

\* C13 witness: a creation event that reached createPerson was handled for
\* the worker whose record is the older of two, so its record was upserted
\* over an existing one.
C13_Witness ==
    /\ Len(db) = 2
    /\ last.op = "created"
    /\ Issued(last, "createPerson")
    /\ db[1].nationalIdNumber = last.w.nationalIdNumber

\* The highest similarity among the matches the gate returned.
TopSimilarity(matches) ==
    CHOOSE s \in {matches[i][2] : i \in DOMAIN matches} :
        \A j \in DOMAIN matches : s >= matches[j][2]

\* C16: a creation rejected by the gate issues no call to the access-control
\* system and sends exactly one upstream update, with status blocked and a
\* non-empty blockedReason that cites the similarity of the top match.
C16_RejectionReported ==
    ( /\ last.op = "created"
      /\ GateRan(last) /\ GateMatches(last) # <<>> )
    => /\ last.calls = <<>>
       /\ Len(last.ups) = 1
       /\ last.ups[1].status = "blocked"
       /\ Truthy(last.ups[1].blockedReason)
       /\ last.ups[1].blockedReason
            = DuplicateReason(TopSimilarity(GateMatches(last)))

\* C16 witness: the gate returned two matches of different similarity.
C16_Witness ==
    /\ last.op = "created"
    /\ GateRan(last)
    /\ Len(GateMatches(last)) = 2
    /\ GateMatches(last)[1][2] # GateMatches(last)[2][2]
    /\ Len(last.ups) = 1

\* C17: when createPerson fails, the worker is stored pending with an empty
\* hikcentral_person_id and has_privilege_access = FALSE, no grantAccess call
\* is issued and no upstream update with status approved is sent.
C17_CreateFailureStoredPending ==
    ( /\ last.op = "created"
      /\ Failed(last, "createPerson") )
    => /\ LET r == RecordOf(db, last.w.nationalIdNumber) IN
          /\ r # <<>>
          /\ r[1].status = "pending"
          /\ ~Truthy(r[1].hikcentral_person_id)
          /\ r[1].has_privilege_access = FALSE
       /\ ~Issued(last, "grantAccess")
       /\ \A i \in DOMAIN last.ups : last.ups[i].status # "approved"

\* C17 witness: createPerson failed for a second worker while the first one
\* is stored approved.
C17_Witness ==
    /\ last.op = "created"
    /\ Failed(last, "createPerson")
    /\ Len(db) = 2
    /\ db[1].status = "approved"
    /\ db[2].status = "pending"

\* C18: when createPerson succeeds in a creation transition, the steps from
\* the gate on are exactly: gate evaluation, one createPerson, one grantAccess,
\* store write (as approved), upstream report; nothing but the face download
\* precedes the gate, and grantAccess is given the person id that createPerson
\* returned.
C18_CreationOrder ==
    ( /\ last.op = "created"
      /\ Succeeded(last, "createPerson") )
    => /\ last.steps = <<"download", "gate", "createPerson", "grantAccess",
                         "persist", "upstream">>
       /\ GateRan(last)
       /\ Len(last.calls) = 2
       /\ last.calls[1].name = "createPerson"
       /\ last.calls[2].name = "grantAccess"
       /\ last.calls[2].arg = AddPerson("personId", last.calls[1].arg)
       /\ Truthy(last.calls[2].arg)
       /\ LET r == RecordOf(db, last.w.nationalIdNumber) IN
          /\ r # <<>>
          /\ r[1].status = "approved"
          /\ r[1].hikcentral_person_id = last.calls[2].arg
       /\ Len(last.ups) = 1
       /\ last.ups[1].status = "approved"

\* C18 witness: a retried pending worker is provisioned while another worker
\* is already stored.
C18_Witness ==
    /\ last.op = "created"
    /\ Succeeded(last, "createPerson")
    /\ Len(last.steps) = 6
    /\ Len(db) = 2
    /\ db[1].nationalIdNumber # last.w.nationalIdNumber

\* The loop of process_events is at a creation event.
AtCreationEvent ==
    /\ next # 0
    /\ events[next].dict
    /\ events[next].type = "worker.created"

\* C19: within one poll the events are handed to process_single_event one at
\* a time in list order, and every worker a creation of this poll has already
\* written to the store with a cached face image path is among the known
\* faces of the gate of every later creation of the poll.
C19_EarlierCreationVisible ==
    [][ next # 0 =>
          /\ dispatched' = Append(dispatched, Len(dispatched) + 1)
          /\ next = Len(dispatched) + 1
          /\ ( AtCreationEvent /\ GateRan(last') )
             => \A k \in persisted :
                  LET r == RecordOf(db, k) IN
                  ( r # <<>> /\ Truthy(r[1].face_image_path) )
                  => \E i \in DOMAIN GateKnown(last') :
                        GateKnown(last')[i] = r[1].face_image_path ]_vars

\* C19 witness: the second event of a poll is a creation that reached the
\* gate, after the first event created and stored another worker.
C19_Witness ==
    /\ dispatched = <<1, 2>>
    /\ events[1].type = "worker.created"
    /\ events[2].type = "worker.created"
    /\ events[1].data.nationalIdNumber # events[2].data.nationalIdNumber
    /\ events[1].data.nationalIdNumber \in persisted
    /\ last.op = "created"
    /\ last.w = events[2].data
    /\ GateRan(last)
    /\ GateKnown(last) # <<>>

\* C20: when process_events has returned, every event of the poll has been
\* handed to process_single_event, whatever failed on the way.
C20_BatchNeverStops ==
    next = 0 => Len(dispatched) = Len(events)

\* C14: a read of the worker store by the dashboard returns the complete
\* record set the file held before the write in progress, or the complete
\* record set that write is putting there, and nothing else.
C14_ReadSeesFullSnapshot ==
    [][ ( pc["dashboard"] = "route" /\ pc'["dashboard"] = "idle" )
        => \/ seen' = file.data
           \/ \E t \in Writers : pc[t] = "opened" /\ seen' = local[t] ]_vars

\* C15: a completed insert leaves every record in the file that a completed
\* insert had put there before.
C15_NoLostUpdate ==
    [][ ~file'.torn
        => \A i \in DOMAIN file.data :
             \E j \in DOMAIN file'.data : file'.data[j] = file.data[i] ]_vars

\* str.lower() on the event-type tags of PolledEvents.
LowerCase(type) == IF type = "WORKER.CREATED" THEN "worker.created" ELSE type

\* C21: an event whose type is a creation tag up to letter case is handed to
\* the creation handler with the event's payload.
C21_DispatchIgnoresCase ==
    [][ ( /\ next # 0
          /\ events[next].dict
          /\ LowerCase(events[next].type) = "worker.created" )
        => /\ last'.op = "created"
           /\ last'.w = events[next].data ]_vars

\* The store has no record for k, or one whose remote person id is empty.
NotProvisioned(data, k) ==
    LET r == RecordOf(data, k) IN
    r = <<>> \/ r[1].hikcentral_person_id \in {"", None}

\* C22: a block, unblock or deletion event for a key that has no record, or
\* whose record has an empty hikcentral_person_id, issues no call to the
\* access-control system, sends no upstream update and leaves the store as
\* it was.
C22_UnprovisionedEventDropped ==
    [][ ( /\ last'.op \in {"blocked", "unblocked", "deleted"}
          /\ NotProvisioned(db, last'.w.nationalIdNumber) )
        => /\ last'.calls = <<>>
           /\ last'.ups = <<>>
           /\ db' = db ]_vars

\* C22 witness: a block event arrived for a worker stored pending, without a
\* remote person id, and nothing was called.
C22_Witness ==
    /\ last.op = "blocked"
    /\ RecordOf(db, last.w.nationalIdNumber) # <<>>
    /\ RecordOf(db, last.w.nationalIdNumber)[1].hikcentral_person_id = ""
    /\ last.calls = <<>>

\* The handler invocation l wrote the store.
Persisted(l) == \E i \in DOMAIN l.steps : l.steps[i] = "persist"

\* C23: every creation, block, unblock or deletion event whose handler
\* carried out a transition (wrote the worker's record) sent at least one
\* worker-status-update upstream.
C23_EveryTransitionAcknowledged ==
    ( last.op \in {"created", "blocked", "unblocked", "deleted"}
      /\ Persisted(last) )
    => Len(last.ups) >= 1

\* C24: a handler never removes a record: every national id in the store
\* before a step is in the store after it.
C24_RecordsNeverRemoved ==
    [][ \A i \in DOMAIN db :
          \E j \in DOMAIN db' :
             db'[j].nationalIdNumber = db[i].nationalIdNumber ]_vars

\* C24 witness: a deletion event went through for one of two stored workers.
C24_Witness ==
    /\ last.op = "deleted"
    /\ Succeeded(last, "deletePerson")
    /\ Len(db) = 2
    /\ RecordOf(db, last.w.nationalIdNumber) # <<>>
    /\ RecordOf(db, last.w.nationalIdNumber)[1].status = "deleted"

\* C29: a creation abandoned at validation (no national id or no worker id),
\* at a missing face URL or at a failed face download leaves the store as it
\* was, issues no call to the access-control system and sends no upstream
\* update; a failed download of the id-card image does not abandon the
\* creation, which goes on to the gate.
C29_AbandonedCreationWritesNothing ==
    [][ last'.op = "created" =>
          /\ ( \/ ~Truthy(last'.w.nationalIdNumber)
               \/ ~Truthy(last'.w.id)
               \/ ~Truthy(last'.w.facePhotoUrl)
               \/ last'.steps = <<"download">>
               \/ disk'[last'.w.nationalIdNumber] = <<>> )
             => /\ db' = db
                /\ last'.calls = <<>>
                /\ last'.ups = <<>>
          /\ last'.id_card = "failed" => GateRan(last') ]_vars

\* C29 witness: the face download failed for a new worker while another
\* worker is stored.
C29_Witness ==
    /\ last.op = "created"
    /\ last.steps = <<"download">>
    /\ db # <<>>
    /\ RecordOf(db, last.w.nationalIdNumber) = <<>>

\* C30: update_worker_status posts nothing and returns False when status is
\* blocked with an empty or missing reason, when status is neither approved
\* nor blocked, or when neither worker id nor national id is given; every
\* blocked update it posts carries a non-empty blockedReason.
C30_InvalidUpdateNotSent ==
    outcome # <<>> =>
      /\ ( \/ ( call.status = "blocked" /\ call.blocked_reason \in {None, ""} )
           \/ call.status \notin {"approved", "blocked"}
           \/ ( call.worker_id \in {None, ""}
                /\ call.national_id_number \in {None, ""} ) )
         => ( outcome[1].sent = <<>> /\ outcome[1].returned = FALSE )
      /\ \A i \in DOMAIN outcome[1].sent :
            outcome[1].sent[i].status = "blocked"
            => outcome[1].sent[i].blockedReason \notin {None, "", Missing}

\* C30 witness: a blocked update with an empty reason, otherwise complete,
\* was refused.
C30_Witness ==
    /\ outcome # <<>>
    /\ call.status = "blocked"
    /\ call.blocked_reason = ""
    /\ call.worker_id = "w1"
    /\ call.national_id_number = "k1"
    /\ outcome[1].sent = <<>>

\* C25: a signed call succeeds exactly when the HTTP status is 2xx and the
\* envelope's code is the string "0"; a transport failure and an envelope
\* whose code is not the string "0" both give the caller the failure result.
C25_SuccessIffCodeZero ==
    outcome # <<>> =>
      /\ outcome[1].accepted
           <=> ( /\ call.transport = "ok"
                 /\ call.status \in 200 .. 299
                 /\ ~call.empty
                 /\ call.body.code = JsonStringZero )
      /\ ( \/ call.transport # "ok"
           \/ call.empty
           \/ call.body.code # JsonStringZero )
         => ( ~outcome[1].accepted /\ outcome[1].person_id = None )

\* C26: the lines of the string to sign are method, Accept, Content-MD5 (only
\* for a request with a body), Content-Type, x-ca-key:<key>,
\* x-ca-nonce:<nonce>, x-ca-timestamp:<timestamp>, URI, in that order; the
\* Content-MD5 header and line are there exactly when the request has a body,
\* and without a body the string has seven lines, none of them empty.
C26_CanonicalString ==
    outcome # <<>> =>
      LET headers == outcome[1].headers
          lines   == outcome[1].string_to_sign
          tail    == << headers["Content-Type"],
                        "x-ca-key:" \o call.app_key,
                        "x-ca-nonce:" \o call.nonce,
                        "x-ca-timestamp:" \o call.timestamp,
                        call.uri >>
      IN  /\ ("Content-MD5" \in DOMAIN headers) <=> (call.body # "")
          /\ IF call.body # ""
             THEN lines = << call.method, headers["Accept"],
                             headers["Content-MD5"] >> \o tail
             ELSE /\ lines = << call.method, headers["Accept"] >> \o tail
                  /\ Len(lines) = 7
                  /\ \A i \in DOMAIN lines : lines[i] # ""

\* C26 witness: a POST without a body has been signed.
C26_Witness ==
    /\ outcome # <<>>
    /\ call.method = "POST"
    /\ call.body = ""
    /\ Len(outcome[1].string_to_sign) = 7

\* C27: upsert on an existing identityKey merges field by field -- every
\* supplied field is overwritten, every field not supplied (the refreshed
\* update stamp aside) keeps its previous value, the other records and the
\* record count are unchanged; upsert on an absent identityKey appends exactly
\* one new record carrying a creation stamp and leaves the others alone.
C27_UpsertMergesOrAppends ==
    outcome # <<>> =>
        LET data == call.data
            given == call.worker_data
            after == outcome[1]
            hits == { i \in DOMAIN data :
                        data[i].nationalIdNumber = given.nationalIdNumber }
        IN  IF hits # {}
            THEN /\ Len(after) = Len(data)
                 /\ \A i \in DOMAIN data :
                       IF i \in hits
                       THEN /\ \A f \in DOMAIN given : after[i][f] = given[f]
                            /\ \A f \in RecordFields \ (DOMAIN given \cup {"_updated_at"}) :
                                  after[i][f] = data[i][f]
                            /\ after[i]["_updated_at"] = UtcNow
                       ELSE after[i] = data[i]
            ELSE /\ Len(after) = Len(data) + 1
                 /\ SubSeq(after, 1, Len(data)) = data
                 /\ \A f \in DOMAIN given : after[Len(after)][f] = given[f]
                 /\ after[Len(after)]["_created_at"] = UtcNow

\* A status patch has been merged into an approved record that sits beside
\* another worker's record.
C27_Witness ==
    /\ outcome # <<>>
    /\ Len(call.data) = 2
    /\ DOMAIN call.worker_data = {"nationalIdNumber", "status"}
    /\ \E i \in DOMAIN call.data :
          /\ call.data[i].nationalIdNumber = call.worker_data.nationalIdNumber
          /\ call.data[i].status = "approved"
          /\ outcome[1][i].status = "blocked"
          /\ outcome[1][i].hikcentral_person_id # ""

\* An image whose feature vector can be extracted.
Extractable(files, path) == files[path] # <<>> /\ files[path][1] # NoFace

\* 1 - distance between two extractable images, in tenths.
SimilarityOf(files, p, q) ==
    10 - 6 * (IF files[p][1] >= files[q][1]
              THEN files[p][1] - files[q][1]
              ELSE files[q][1] - files[p][1])

\* C28: for a candidate with a feature vector, find_duplicate_faces returns
\* exactly the known images whose vector can be extracted and whose
\* similarity to the candidate is >= the threshold (boundary included), each
\* once with its similarity, ordered by similarity descending; a known image
\* whose extraction fails is skipped and the rest of the list still scanned.
C28_ExactlyTheMatchesSorted ==
    (outcome # <<>> /\ Extractable(call.files, NewFacePath)) =>
        LET files == call.files
            matches == outcome[1]
            known == { call.existing_faces[i] : i \in DOMAIN call.existing_faces }
            expected == { p \in known :
                            /\ Extractable(files, p)
                            /\ SimilarityOf(files, NewFacePath, p)
                                  >= FACE_SIMILARITY_THRESHOLD }
        IN  /\ { matches[i][1] : i \in DOMAIN matches } = expected
            /\ Len(matches) = Cardinality(expected)
            /\ \A i \in DOMAIN matches :
                  matches[i][2] = SimilarityOf(files, NewFacePath, matches[i][1])
            /\ \A i, j \in DOMAIN matches :
                  i < j => matches[i][2] >= matches[j][2]

\* The list starts with an image without a vector, then a match exactly at
\* the threshold, then an identical face: both matches are returned, the
\* stronger first.
C28_Witness ==
    /\ outcome # <<>>
    /\ Len(call.existing_faces) = 3
    /\ ~Extractable(call.files, call.existing_faces[1])
    /\ Len(outcome[1]) = 2
    /\ outcome[1][1] = <<call.existing_faces[3], 10>>
    /\ outcome[1][2] = <<call.existing_faces[2], FACE_SIMILARITY_THRESHOLD>>

\* C31: when the remote call of a block (revokeAccess), unblock (grantAccess)
\* or deletion (deletePerson) fails, the handler leaves the store as it was,
\* record of the worker included, and sends no upstream update.
C31_FailedCallAbortsTransition ==
    [][ ( \/ last'.op = "blocked" /\ Failed(last', "revokeAccess")
          \/ last'.op = "unblocked" /\ Failed(last', "grantAccess")
          \/ last'.op = "deleted" /\ Failed(last', "deletePerson") )
        => /\ db' = db
           /\ RecordOf(db', last'.w.nationalIdNumber)
                = RecordOf(db, last'.w.nationalIdNumber)
           /\ last'.ups = <<>> ]_vars

\* C31 witness: revokeAccess failed for an approved worker that holds the
\* access grant, stored beside another worker.
C31_Witness ==
    /\ last.op = "blocked"
    /\ Failed(last, "revokeAccess")
    /\ Len(db) = 2
    /\ LET r == RecordOf(db, last.w.nationalIdNumber) IN
       /\ r # <<>>
       /\ r[1].status = "approved"
       /\ r[1].has_privilege_access = TRUE

\* The fields a block may change: the ones the claim names and the stamps.
BlockMayChange ==
    {"status", "has_privilege_access", "blockedReason", "_updated_at"}

ReasonText(record) ==
    IF Truthy(record.blockedReason) THEN record.blockedReason ELSE ""

C34_StatusAgreesWithPersonId ==
    \A i \in DOMAIN db :
        /\ db[i].status \in {"approved", "blocked", "deleted"}
             => Truthy(db[i].hikcentral_person_id)
        /\ db[i].status = "pending"
             => /\ db[i].hikcentral_person_id = ""
                /\ db[i].has_privilege_access = FALSE

\* C34 witness: a worker that was provisioned and then deleted is stored
\* beside a worker whose createPerson call has just failed.
C34_Witness ==
    /\ Len(db) = 2
    /\ db[1].status = "deleted"
    /\ db[1].hikcentral_person_id # ""
    /\ db[2].status = "pending"
    /\ last.op = "created"
    /\ Failed(last, "createPerson")

\* C35: whenever the access-control system accepts the createPerson request
\* (a 2xx response whose envelope code is the string "0"), add_person returns
\* a non-empty person id.
C35_AcceptedCreationGivesPersonId ==
    ( /\ outcome # <<>>
      /\ call.transport = "ok"
      /\ call.status \in 200 .. 299
      /\ ~call.empty
      /\ call.body.code = JsonStringZero )
    => Truthy(outcome[1].person_id)

\* Position of the first step with the given name, 0 when there is none.
StepIndex(steps, name) ==
    IF \E i \in DOMAIN steps : steps[i] = name
    THEN CHOOSE i \in DOMAIN steps :
            steps[i] = name /\ \A j \in 1 .. (i - 1) : steps[j] # name
    ELSE 0

\* C36: every upstream update with status approved names the worker of the
\* event, carries an externalId equal to the hikcentral_person_id stored for
\* that worker, and is sent after the handler has written the store, whose
\* record for that worker has status approved.
C36_ApprovedReportFollowsStore ==
    \A i \in DOMAIN last.ups :
        last.ups[i].status = "approved"
        => LET r == RecordOf(db, last.w.nationalIdNumber) IN
           /\ last.ups[i].nationalIdNumber = last.w.nationalIdNumber
           /\ r # <<>>
           /\ r[1].status = "approved"
           /\ Truthy(r[1].hikcentral_person_id)
           /\ last.ups[i].externalId = r[1].hikcentral_person_id
           /\ StepIndex(last.steps, "persist") > 0
           /\ StepIndex(last.steps, "persist") < StepIndex(last.steps, "upstream")

\* C36 witness: a creation has reported its approval upstream, and so has an
\* unblock of another worker before it.
C36_Witness ==
    /\ last.op = "created"
    /\ Len(last.ups) = 1
    /\ last.ups[1].status = "approved"
    /\ last.ups[1].externalId = "p2"
    /\ Len(db) = 2
    /\ \E i \in DOMAIN db :
          db[i].nationalIdNumber = "k1" /\ db[i].blockedReason = ""

\* C37: a creation event for a worker whose record is blocked or deleted and
\* has a hikcentral_person_id does nothing: no image download, no gate, no
\* call to the access-control system, no upstream update, store and image
\* files as they were; the record stays blocked or deleted.
C37_CreationAfterBlockIsNoOp ==
    [][ \A k \in Keys :
          ( /\ RecordOf(db, k) # <<>>
            /\ RecordOf(db, k)[1].status \in {"blocked", "deleted"}
            /\ Truthy(RecordOf(db, k)[1].hikcentral_person_id)
            /\ last'.op = "created"
            /\ last'.w.nationalIdNumber = k )
          => /\ last'.steps = <<>>
             /\ ~GateRan(last')
             /\ last'.calls = <<>>
             /\ last'.ups = <<>>
             /\ disk' = disk
             /\ db' = db
             /\ RecordOf(db', k)[1].status = RecordOf(db, k)[1].status ]_vars

\* C37 witness: a complete creation event (id and face URL present) arrived
\* for a deleted worker and left it deleted.
C37_Witness ==
    /\ last.op = "created"
    /\ Truthy(last.w.id) /\ Truthy(last.w.facePhotoUrl)
    /\ last.steps = <<>>
    /\ LET r == RecordOf(db, last.w.nationalIdNumber) IN
       /\ r # <<>>
       /\ r[1].status = "deleted"
       /\ Truthy(r[1].hikcentral_person_id)

\* C38: a store write (insert, update, upsert_worker) leaves every record
\* whose key is not the one written in the file and unchanged, also when the
\* read that precedes the write fails.
C38_WriteKeepsOtherRecords ==
    outcome # <<>> =>
        \A i \in DOMAIN call.data :
            call.data[i].nationalIdNumber # call.worker_data.nationalIdNumber
            => \E j \in DOMAIN outcome[1] : outcome[1][j] = call.data[i]

====
